---- MODULE Spec2Model ----
(***************************************************************************)
(* A model of src/src/security.js: the 'Security' namespace that keeps the *)
(* credentials of the logged in user (user, pass), mirrors them into       *)
(* localStorage or sessionStorage, and sends XMLHttpRequests carrying a    *)
(* Basic Authentication header built from them.                            *)
(*                                                                         *)
(* The file holds the module twice; the second copy (lines 448-647) finds  *)
(* window.Security already defined and only warns, so the first copy       *)
(* (lines 23-425) is the one that runs and the one modelled here.          *)
(*                                                                         *)
(* JavaScript values are records [t |-> <type tag>, v |-> <payload>]; a    *)
(* string's payload is the sequence of its character codes.                *)
(***************************************************************************)
EXTENDS Integers, Sequences, FiniteSets

VARIABLES
    user,            \* Security.user
    pass,            \* Security.pass
    localStorage,    \* the durable scope:   [user, pass]
    sessionStorage,  \* the ephemeral scope: [user, pass]
    requests,        \* the XMLHttpRequest objects created by send, oldest first
    calls            \* the three calls or callbacks that ran last, latest first

vars == <<user, pass, localStorage, sessionStorage, requests, calls>>

----------------------------------------------------------------------------
(* Bounds of the model *)

\* how many distinct credential strings the callers use
NumStr == 2
\* how many XMLHttpRequest objects one page creates
MaxRequests == 1

----------------------------------------------------------------------------
(* JavaScript values *)

Null == [t |-> "null", v |-> <<>>]

Undefined == [t |-> "undefined", v |-> <<>>]

JSString(s) == [t |-> "string", v |-> s]

JSNumber(n) == [t |-> "number", v |-> <<n>>]

JSBoolean(b) == [t |-> "boolean", v |-> <<IF b THEN 1 ELSE 0>>]

JSFunction(id) == [t |-> "function", v |-> <<id>>]

JSObject == [t |-> "object", v |-> <<>>]

\* typeof(x): null is reported as an object
typeof(x) == IF x.t = "null" THEN "object" ELSE x.t

\* "a", "b", "c", "d"
Names == << <<97>>, <<98>>, <<99>>, <<100>> >>

Str == {JSString(Names[i]) : i \in 1..NumStr}

\* "null" and "undefined"
NullText == <<110, 117, 108, 108>>

UndefinedText == <<117, 110, 100, 101, 102, 105, 110, 101, 100>>

\* The string a value is converted to when it is concatenated to a string or
\* assigned to a key of a Storage object.
ToString(x) ==
    CASE x.t = "string"    -> x.v
      [] x.t = "null"      -> NullText
      [] x.t = "undefined" -> UndefinedText
      [] OTHER             -> <<63>>

\* Storage keeps strings only: an assignment stores the value's string form.
StorageValue(x) == JSString(ToString(x))

\* what a caller may pass to login as user and as pass
LoginArgs == Str \cup {Null}

\* what a Storage key may hold when the page is loaded
StoredAtLoad == Str \cup {Undefined}

Scopes == [user : StoredAtLoad, pass : StoredAtLoad]

EmptyScope == [user |-> Undefined, pass |-> Undefined]

----------------------------------------------------------------------------
(* Internal methods *)

\* expectString left out, as in assignments that take the value as it is
ExpectStringNeverThrows(s) == FALSE

\* expectString returns s when it is a string, and throws otherwise
ExpectStringThrows(s) == typeof(s) # "string"

----------------------------------------------------------------------------
(* The record of the call that ran last *)

NoConfig ==
    [t |-> "undefined", v |-> <<>>, data |-> Undefined,
     onSuccess |-> Undefined, onFailure |-> Undefined]

\* what is recorded of a call: its name, its arguments, what it threw
\* ("none" when it returned), what it returned ("this" unless said
\* otherwise) and, for the callback of a request, which handler it invoked
\* with which arguments
Call(op, thrown) ==
    [op |-> op, thrown |-> thrown,
     returns |-> IF thrown = "none" THEN "this" ELSE "nothing",
     user |-> Undefined, pass |-> Undefined, remember |-> FALSE,
     method |-> Undefined, config |-> NoConfig,
     req |-> 0, readyState |-> 0, status |-> 0, text |-> <<>>,
     handler |-> "none", fn |-> 0, args |-> <<>>]

LoginCall(u, p, r) ==
    [Call("login", "none") EXCEPT !.user = u, !.pass = p, !.remember = r]

NoCall == Call("none", "none")

\* of the calls before the latest one, the requests' details are dropped, and
\* so are the arguments of a login that was not given two strings
Brief(c) ==
    IF \/ c.op \in {"send", "post", "put", "get", "delete", "options",
                    "readystatechange"}
       \/ c.op = "login" /\ (c.user.t # "string" \/ c.pass.t # "string")
    THEN Call(c.op, c.thrown)
    ELSE c

\* the call c has just ended: it becomes the latest of the three
Record(c) == calls' = <<c, Brief(calls[1]), calls[2]>>

\* the same, where only the latest call is followed
RecordOnly(c) == calls' = <<c, NoCall, NoCall>>

last == calls[1]

prev == calls[2]

prev2 == calls[3]

----------------------------------------------------------------------------
(* Manage credentials *)

getUsername == user

getPassword == pass

isLoggedIn == user # Null /\ pass # Null

\* LoadFrom with the second assignment reading the wrong key
LoadFromUserTwice(s) ==
    IF ExpectStringThrows(s.user)
    THEN [user |-> user, pass |-> pass, thrown |-> "is not a string"]
    ELSE [user |-> s.user, pass |-> s.user, thrown |-> "none"]

\* The two assignments of loadStored / loadSession, in order, from scope s:
\* the first expectString that throws ends the call, after the assignments
\* before it have been made.
LoadFrom(s) ==
    IF ExpectStringThrows(s.user)
    THEN [user |-> user, pass |-> pass, thrown |-> "is not a string"]
    ELSE IF ExpectStringThrows(s.pass)
         THEN [user |-> s.user, pass |-> pass, thrown |-> "is not a string"]
         ELSE [user |-> s.user, pass |-> s.pass, thrown |-> "none"]

Load(op, s) ==
    LET r == LoadFrom(s) IN
    /\ user' = r.user
    /\ pass' = r.pass
    /\ Record(Call(op, r.thrown))
    /\ UNCHANGED <<localStorage, sessionStorage, requests>>

loadStored == Load("loadStored", localStorage)

loadSession == Load("loadSession", sessionStorage)

Hydratable(s) == typeof(s.user) = "string" /\ typeof(s.pass) = "string"

\* start trying the session scope before the durable one
startSessionFirst ==
    IF Hydratable(sessionStorage)
    THEN Load("start", sessionStorage)
    ELSE IF Hydratable(localStorage)
         THEN Load("start", localStorage)
         ELSE /\ Record(Call("start", "none"))
              /\ UNCHANGED <<user, pass, localStorage, sessionStorage, requests>>

start ==
    IF Hydratable(localStorage)
    THEN Load("start", localStorage)
    ELSE IF Hydratable(sessionStorage)
         THEN Load("start", sessionStorage)
         ELSE /\ Record(Call("start", "none"))
              /\ UNCHANGED <<user, pass, localStorage, sessionStorage, requests>>

\* LoginEffect writing both scopes whatever remember is
LoginEffectBothScopes(u, p, remember) ==
    /\ user' = u
    /\ pass' = p
    /\ localStorage' = [user |-> StorageValue(u), pass |-> StorageValue(p)]
    /\ sessionStorage' = [user |-> StorageValue(u), pass |-> StorageValue(p)]

LoginEffect(u, p, remember) ==
    /\ user' = u
    /\ pass' = p
    /\ IF remember
       THEN /\ localStorage' = [user |-> StorageValue(u), pass |-> StorageValue(p)]
            /\ UNCHANGED sessionStorage
       ELSE /\ sessionStorage' = [user |-> StorageValue(u), pass |-> StorageValue(p)]
            /\ UNCHANGED localStorage

\* login(user, pass, remember), and login(user): the parameters left out are
\* undefined, and an undefined remember counts as false
login ==
    \E u \in LoginArgs, p \in LoginArgs \cup {Undefined}, remember \in BOOLEAN :
        /\ p = Undefined => u \in Str /\ ~remember
        /\ LoginEffect(u, p, remember)
        /\ Record(LoginCall(u, p, remember))
        /\ UNCHANGED requests

LogoutEffect ==
    /\ localStorage' = [user |-> StorageValue(Null), pass |-> StorageValue(Null)]
    /\ sessionStorage' = [user |-> StorageValue(Null), pass |-> StorageValue(Null)]
    /\ UNCHANGED <<user, pass>>

logout ==
    /\ LogoutEffect
    /\ Record(Call("logout", "none"))
    /\ UNCHANGED requests

\* The page is loaded again: the module is evaluated anew, so the fields are
\* null and the requests of the old page are gone. localStorage survives;
\* sessionStorage survives a reload and is empty in a new browsing context.
reload ==
    /\ user' = Null
    /\ pass' = Null
    /\ sessionStorage' \in {sessionStorage, EmptyScope}
    /\ requests' = <<>>
    /\ Record(Call("reload", "none"))
    /\ UNCHANGED localStorage

----------------------------------------------------------------------------
(* Basic Authentication in HTTP requests *)

\* the no-op function() {} that send starts with
NoOp == JSFunction(0)

\* functionOr taking whatever is no function as absent
FunctionOrNeverThrows(f) == FALSE

\* functionOr: f when it is a function, otherwise when f is undefined, and
\* an exception for anything else
FunctionOrThrows(f) == typeof(f) # "function" /\ typeof(f) # "undefined"

FunctionOr(f, otherwise) == IF typeof(f) = "function" THEN f ELSE otherwise

\* expectNumber returns n when it is a number, and throws otherwise
ExpectNumberThrows(n) == typeof(n) # "number"

\* The characters encodeURI leaves as they are: letters, digits and
\* ; , / ? : @ & = + $ - _ . ! ~ * ' ( ) #
UriKept(c) ==
    \/ c \in 65..90 \/ c \in 97..122 \/ c \in 48..57
    \/ c \in {59, 44, 47, 63, 58, 64, 38, 61, 43, 36, 45, 95, 46, 33, 126,
              42, 39, 40, 41, 35}

HexDigit(n) == IF n < 10 THEN 48 + n ELSE 55 + n

RECURSIVE encodeURI(_)
encodeURI(s) ==
    IF s = <<>> THEN <<>>
    ELSE (IF UriKept(Head(s)) THEN <<Head(s)>>
          ELSE <<37, HexDigit(Head(s) \div 16), HexDigit(Head(s) % 16)>>)
         \o encodeURI(Tail(s))

\* JSON.stringify of the values the callers send: undefined stays undefined
JSONStringify(x) ==
    CASE x.t = "undefined" -> Undefined
      [] x.t = "null"      -> JSString(NullText)
      [] x.t = "number"    -> JSString(<<48 + x.v[1]>>)
      [] x.t = "string"    -> JSString(<<34>> \o x.v \o <<34>>)
      [] OTHER             -> JSString(<<123, 125>>)

\* the texts JSON.parse accepts, among those the servers answer with: a
\* digit, null and {}; anything else, the empty text too, is a SyntaxError
JSONParseThrows(text) ==
    ~ \/ (Len(text) = 1 /\ text[1] \in 48..57)
      \/ text = NullText
      \/ text = <<123, 125>>

JSONParse(text) ==
    IF text = NullText THEN Null
    ELSE IF text = <<123, 125>> THEN JSObject
    ELSE JSNumber(text[1] - 48)

B64Char(i) ==
    IF i < 26 THEN 65 + i
    ELSE IF i < 52 THEN 97 + (i - 26)
    ELSE IF i < 62 THEN 48 + (i - 52)
    ELSE IF i = 62 THEN 43 ELSE 47

\* btoa: base64 of a string of character codes below 256
RECURSIVE btoa(_)
btoa(s) ==
    IF s = <<>> THEN <<>>
    ELSE IF Len(s) = 1
    THEN <<B64Char(s[1] \div 4), B64Char((s[1] % 4) * 16), 61, 61>>
    ELSE IF Len(s) = 2
    THEN <<B64Char(s[1] \div 4),
           B64Char((s[1] % 4) * 16 + s[2] \div 16),
           B64Char((s[2] % 16) * 4), 61>>
    ELSE <<B64Char(s[1] \div 4),
           B64Char((s[1] % 4) * 16 + s[2] \div 16),
           B64Char((s[2] % 16) * 4 + s[3] \div 64),
           B64Char(s[3] % 64)>> \o btoa(SubSeq(s, 4, Len(s)))

\* "Basic "
BasicPrefix == <<66, 97, 115, 105, 99, 32>>

\* AuthorizationHeader with the two fields in the wrong order
AuthorizationHeaderSwapped(u, p) ==
    BasicPrefix \o btoa(ToString(p) \o <<58>> \o ToString(u))

\* 'Basic ' + btoa(u + ':' + p)
AuthorizationHeader(u, p) ==
    BasicPrefix \o btoa(ToString(u) \o <<58>> \o ToString(p))

\* "GET"
GET == JSString(<<71, 69, 84>>)

\* "POST", "PUT", "DELETE", "OPTIONS"
POST == JSString(<<80, 79, 83, 84>>)

PUT == JSString(<<80, 85, 84>>)

DELETE == JSString(<<68, 69, 76, 69, 84, 69>>)

OPTIONS == JSString(<<79, 80, 84, 73, 79, 78, 83>>)

\* XMLHttpRequest.open throws a SyntaxError for a method that is no token
OpenThrows(method) == ToString(method) = <<>>

\* what callers pass as method
Methods == {GET, JSString(<<>>), Null}

Config(t, v, data, onSuccess, onFailure) ==
    [t |-> t, v |-> v, data |-> data, onSuccess |-> onSuccess,
     onFailure |-> onFailure]

\* A property of a primitive that has no such property is undefined.
Primitive(x) == Config(x.t, x.v, Undefined, Undefined, Undefined)

\* what callers pass as config
Configs ==
    {Primitive(x) : x \in {Undefined, Null, JSFunction(1), JSString(Names[1]),
                           JSNumber(42), JSBoolean(TRUE)}}
    \cup {Config("object", <<>>, Undefined, Undefined, Undefined),
          Config("object", <<>>, JSNumber(1), JSFunction(1), JSFunction(2)),
          Config("object", <<>>, JSNumber(1), JSNumber(42), JSFunction(2)),
          Config("object", <<>>, JSNumber(1), JSFunction(1), Null),
          Config("object", <<>>, Undefined, JSFunction(1), JSString(Names[1]))}

\* DualHandler with the function taken as the success handler only
DualHandlerOnSuccessOnly(config) ==
    [onSuccess |-> JSFunction(config.v[1]), onFailure |-> NoOp]

\* config is a function: onSuccess = config; onFailure = config
DualHandler(config) ==
    [onSuccess |-> JSFunction(config.v[1]),
     onFailure |-> JSFunction(config.v[1])]

\* The statements of send up to the request's headers, in order: what is
\* thrown, if anything, and otherwise the handlers, the Content-Type and the
\* data of the request.
SendPlan(method, config) ==
    LET plan(thrown, onSuccess, onFailure, contentType, data) ==
            [thrown |-> thrown, method |-> method, config |-> config,
             onSuccess |-> onSuccess,
             onFailure |-> onFailure, contentType |-> contentType,
             data |-> data]
        fails(thrown) == plan(thrown, NoOp, NoOp, "none", JSString(<<>>))
    IN
    IF ExpectStringThrows(method) THEN fails("is not a string")
    ELSE IF OpenThrows(method) THEN fails("SyntaxError")
    ELSE IF typeof(config) = "undefined"
    THEN plan("none", NoOp, NoOp, "none", JSString(<<>>))
    ELSE IF typeof(config) = "function"
    THEN plan("none", DualHandler(config).onSuccess,
              DualHandler(config).onFailure, "none", JSString(<<>>))
    ELSE IF typeof(config) = "string"
    THEN plan("none", NoOp, NoOp, "application/x-www-form-urlencoded",
              JSString(encodeURI(ToString(config.data))))
    ELSE IF typeof(config) = "object"
    THEN IF config.t = "null" THEN fails("TypeError")
         ELSE IF FunctionOrThrows(config.onSuccess)
                 \/ FunctionOrThrows(config.onFailure)
         THEN fails("Expected function")
         ELSE plan("none", FunctionOr(config.onSuccess, NoOp),
                   FunctionOr(config.onFailure, NoOp), "application/json",
                   JSONStringify(config.data))
    ELSE fails("Unexpected config type")

\* The XMLHttpRequest that send has sent, with what its callback holds of
\* the call (config, onSuccess, onFailure): xhttp.send() when data === '',
\* xhttp.send(data) otherwise.
Request(plan) ==
    [method |-> plan.method,
     config |-> plan.config,
     onSuccess |-> plan.onSuccess,
     onFailure |-> plan.onFailure,
     contentType |-> plan.contentType,
     authorization |-> AuthorizationHeader(user, pass),
     withCredentials |-> TRUE,
     body |-> IF plan.data = JSString(<<>>) THEN Undefined ELSE plan.data,
     readyState |-> 1,
     invoked |-> 0]

\* The body of send, called as op on a page that creates no more than limit
\* requests: it has no return statement, so a call that does not throw
\* returns undefined.
SendWithin(limit, op, method, config) ==
    LET plan == SendPlan(method, config) IN
    /\ Len(requests) < limit
    /\ requests' = IF plan.thrown = "none"
                   THEN Append(requests, Request(plan))
                   ELSE requests
    /\ RecordOnly([Call(op, plan.thrown) EXCEPT
                     !.method = method, !.config = config,
                     !.returns = IF plan.thrown = "none"
                                 THEN "undefined" ELSE "nothing"])
    /\ UNCHANGED <<user, pass, localStorage, sessionStorage>>

SendEffect(op, method, config) == SendWithin(MaxRequests, op, method, config)

send ==
    \E method \in Methods, config \in Configs :
        SendEffect("send", method, config)

\* post, put, get, delete and options return this.send(<method>, url, config)
post == \E config \in Configs : SendEffect("post", POST, config)

put == \E config \in Configs : SendEffect("put", PUT, config)

get == \E config \in Configs : SendEffect("get", GET, config)

delete == \E config \in Configs : SendEffect("delete", DELETE, config)

options == \E config \in Configs : SendEffect("options", OPTIONS, config)

\* the status codes the servers answer with; 0 is a request that failed
Statuses == {0, 200, 201, 202, 203, 204, 205, 301, 400, 500}

\* the response texts: none, 1, {} and the start of an HTML page
ResponseTexts == {<<>>, <<49>>, <<123, 125>>, <<60>>}

\* SuccessStatuses with every 2xx code of the model taken as a success
SuccessStatusesAll2xx == {200, 201, 202, 203, 204, 205}

\* the status codes that send takes as a success
SuccessStatuses == {200, 201, 202, 203, 204}

\* Callback taking every state change that is not the last as a failure
CallbackFailsUntilDone(r, readyState, status, text) ==
    LET done(thrown, handler, fn, args) ==
            [thrown |-> thrown, handler |-> handler, fn |-> fn, args |-> args]
    IN
    IF readyState # 4
    THEN done("none", "onFailure", r.onFailure.v[1], <<Null, JSNumber(status)>>)
    ELSE IF JSONParseThrows(text) THEN done("SyntaxError", "none", 0, <<>>)
    ELSE IF status \in {200, 201, 202, 203, 204}
    THEN done("none", "onSuccess", r.onSuccess.v[1],
              <<JSONParse(text), JSNumber(status)>>)
    ELSE done("none", "onFailure", r.onFailure.v[1],
              <<JSONParse(text), JSNumber(status)>>)

\* Callback with a response that does not parse handed to onFailure
CallbackParseFailureToOnFailure(r, readyState, status, text) ==
    LET done(thrown, handler, fn, args) ==
            [thrown |-> thrown, handler |-> handler, fn |-> fn, args |-> args]
    IN
    IF readyState # 4 THEN done("none", "none", 0, <<>>)
    ELSE IF JSONParseThrows(text)
    THEN done("none", "onFailure", r.onFailure.v[1], <<Null, JSNumber(status)>>)
    ELSE IF status \in {200, 201, 202, 203, 204}
    THEN done("none", "onSuccess", r.onSuccess.v[1],
              <<JSONParse(text), JSNumber(status)>>)
    ELSE done("none", "onFailure", r.onFailure.v[1],
              <<JSONParse(text), JSNumber(status)>>)

\* The body of xhttp.onreadystatechange for a request that has reached
\* readyState: what is thrown, and which handler is invoked with which
\* arguments.
Callback(r, readyState, status, text) ==
    LET done(thrown, handler, fn, args) ==
            [thrown |-> thrown, handler |-> handler, fn |-> fn, args |-> args]
    IN
    IF readyState # 4 THEN done("none", "none", 0, <<>>)
    ELSE IF JSONParseThrows(text) THEN done("SyntaxError", "none", 0, <<>>)
    ELSE IF ExpectNumberThrows(JSNumber(status))
    THEN done("is not a number", "none", 0, <<>>)
    ELSE IF status \in SuccessStatuses
    THEN done("none", "onSuccess", r.onSuccess.v[1],
              <<JSONParse(text), JSNumber(status)>>)
    ELSE done("none", "onFailure", r.onFailure.v[1],
              <<JSONParse(text), JSNumber(status)>>)

\* Fire with a callback that ends the session when the request has failed
FireEndingSessionOnFailure(i, readyState, status, text) ==
    LET r == requests[i]
        c == Callback(r, readyState, status, text)
    IN
    /\ readyState > r.readyState
    /\ requests' = [requests EXCEPT
                      ![i].readyState = readyState,
                      ![i].invoked = @ + (IF c.handler = "none" THEN 0 ELSE 1)]
    /\ RecordOnly([Call("readystatechange", c.thrown) EXCEPT
                     !.req = i, !.readyState = readyState,
                     !.status = status, !.text = text,
                     !.handler = c.handler, !.fn = c.fn, !.args = c.args])
    /\ IF c.handler = "onFailure"
       THEN user' = Null /\ pass' = Null
       ELSE UNCHANGED <<user, pass>>
    /\ UNCHANGED <<localStorage, sessionStorage>>

\* The browser moves request i on to a later readyState (2 headers received,
\* 3 loading, 4 done) and calls xhttp.onreadystatechange; status and
\* responseText are what the request holds when it is done.
Fire(i, readyState, status, text) ==
    LET r == requests[i]
        c == Callback(r, readyState, status, text)
    IN
    /\ readyState > r.readyState
    /\ requests' = [requests EXCEPT
                      ![i].readyState = readyState,
                      ![i].invoked = @ + (IF c.handler = "none" THEN 0 ELSE 1)]
    /\ RecordOnly([Call("readystatechange", c.thrown) EXCEPT
                     !.req = i, !.readyState = readyState,
                     !.status = status, !.text = text,
                     !.handler = c.handler, !.fn = c.fn, !.args = c.args])
    /\ UNCHANGED <<user, pass, localStorage, sessionStorage>>

readystatechange ==
    \E i \in 1..Len(requests) :
        \/ \E readyState \in 2..3 : Fire(i, readyState, 0, <<>>)
        \/ \E status \in Statuses, text \in ResponseTexts :
              Fire(i, 4, status, text)

----------------------------------------------------------------------------
(* The credential store on its own *)

Init ==
    /\ user = Null
    /\ pass = Null
    /\ localStorage \in Scopes
    /\ sessionStorage \in Scopes
    /\ requests = <<>>
    /\ calls = <<NoCall, NoCall, NoCall>>

Next ==
    \/ start
    \/ login
    \/ loadStored
    \/ loadSession
    \/ logout
    \/ reload

Spec == Init /\ [][Next]_vars

----------------------------------------------------------------------------
(* The requests, with the logins and logouts that race with them *)

InitSend ==
    /\ user = Null
    /\ pass = Null
    /\ localStorage = EmptyScope
    /\ sessionStorage = EmptyScope
    /\ requests = <<>>
    /\ calls = <<NoCall, NoCall, NoCall>>

\* login and logout as they race with the requests: one user logs in
loginWhileRequesting ==
    \E remember \in BOOLEAN :
        /\ LoginEffect(JSString(Names[1]), JSString(Names[2]), remember)
        /\ RecordOnly(LoginCall(JSString(Names[1]), JSString(Names[2]), remember))
        /\ UNCHANGED requests

logoutWhileRequesting ==
    /\ LogoutEffect
    /\ RecordOnly(Call("logout", "none"))
    /\ UNCHANGED requests

NextSend ==
    \/ send
    \/ readystatechange
    \/ loginWhileRequesting
    \/ logoutWhileRequesting

SpecSend == InitSend /\ [][NextSend]_vars

----------------------------------------------------------------------------
(* The requests sent through send and through post, put, get, delete and
   options *)

NextWrappers ==
    \/ send
    \/ post
    \/ put
    \/ get
    \/ delete
    \/ options
    \/ readystatechange

SpecWrappers == InitSend /\ [][NextWrappers]_vars

----------------------------------------------------------------------------
(* The requests of a session whose login was given a password or null *)

\* login(user, pass) as it races with the requests: login makes no check of
\* its arguments, so the password is taken as it is given, a string or null
loginWithOrWithoutPass ==
    \E p \in {JSString(Names[2]), Null} :
        /\ LoginEffect(JSString(Names[1]), p, FALSE)
        /\ RecordOnly(LoginCall(JSString(Names[1]), p, FALSE))
        /\ UNCHANGED requests

NextHalfSet ==
    \/ send
    \/ loginWithOrWithoutPass

SpecHalfSet == InitSend /\ [][NextHalfSet]_vars

----------------------------------------------------------------------------
(* Requests in flight together *)

\* how many requests are in flight together
MaxInterleaved == MaxRequests + 1

\* one config of each shape that send accepts, and one that it rejects
ConfigShapes ==
    {Primitive(Undefined), Primitive(JSFunction(1)),
     Primitive(JSString(Names[1])),
     Config("object", <<>>, JSNumber(1), JSFunction(1), JSFunction(2)),
     Primitive(JSNumber(42))}

Wrappers ==
    {<<"post", POST>>, <<"put", PUT>>, <<"get", GET>>, <<"delete", DELETE>>,
     <<"options", OPTIONS>>}

\* send with a config of any shape, while other requests are in flight
sendInterleaved ==
    \E config \in ConfigShapes : SendWithin(MaxInterleaved, "send", GET, config)

\* post, put, get, delete and options, while other requests are in flight
wrapperInterleaved ==
    \E w \in Wrappers :
        SendWithin(MaxInterleaved, w[1], w[2], Primitive(JSFunction(1)))

\* a request completes, in any order with the others; the callbacks of the
\* state changes before the last do nothing
complete ==
    \E i \in 1..Len(requests), status \in {200, 500},
       text \in {<<49>>, <<60>>} :
        Fire(i, 4, status, text)

NextInterleaved ==
    \/ sendInterleaved
    \/ wrapperInterleaved
    \/ complete
    \/ loginWhileRequesting

SpecInterleaved == InitSend /\ [][NextInterleaved]_vars

----------------------------------------------------------------------------
(* Properties of the credential store *)

BothStrings(s) == s.user.t = "string" /\ s.pass.t = "string"

IsCredential(x) == x \in Str

\* C1: in every reachable state the session's username and secret are either
\* both null or both non-null.
C1_FieldsSetTogether == (user = Null) <=> (pass = Null)

\* C2: after logout the session's username and secret are both null,
\* isLoggedIn is false and neither scope holds a credential; a logout that
\* follows a logout changes neither the session nor the scopes.
C2_LogoutClearsEverything ==
    [][calls'[1].op = "logout" =>
          /\ user' = Null
          /\ pass' = Null
          /\ ~isLoggedIn'
          /\ ~BothStrings(localStorage')
          /\ ~BothStrings(sessionStorage')
          /\ (calls[1].op = "logout" =>
                <<user, pass, localStorage, sessionStorage>>' =
                <<user, pass, localStorage, sessionStorage>>)]_vars

\* C3: start called right after logout ends logged out, whatever the session
\* and the scopes held before.
C3_LogoutThenStartIsLoggedOut ==
    (prev.op = "logout" /\ last.op = "start") => ~isLoggedIn

RememberedThenFresh ==
    /\ prev2.op = "login" /\ prev2.remember
    /\ IsCredential(prev2.user) /\ IsCredential(prev2.pass)
    /\ prev.op = "reload"
    /\ last.op = "start"

\* C4: after login(user, secret, remember = true) with strings, a freshly
\* loaded page that calls start has getUsername() = user and
\* getPassword() = secret.
C4_RememberRoundTrip ==
    RememberedThenFresh =>
        getUsername = prev2.user /\ getPassword = prev2.pass

C4_Witness ==
    /\ RememberedThenFresh
    /\ prev2.user # prev2.pass
    /\ isLoggedIn

\* C5: a login with strings writes exactly one scope: with remember = false
\* the ephemeral scope holds (user, secret) afterwards and the durable scope
\* is as it was; with remember = true the durable scope holds (user, secret)
\* and the ephemeral scope is as it was.
C5_LoginWritesOneScope ==
    [][(/\ calls'[1].op = "login"
        /\ IsCredential(calls'[1].user)
        /\ IsCredential(calls'[1].pass)) =>
          LET held == [user |-> calls'[1].user, pass |-> calls'[1].pass] IN
          IF calls'[1].remember
          THEN localStorage' = held /\ sessionStorage' = sessionStorage
          ELSE sessionStorage' = held /\ localStorage' = localStorage]_vars

C5_Witness ==
    /\ last.op = "login" /\ ~last.remember
    /\ IsCredential(last.user) /\ IsCredential(last.pass)
    /\ sessionStorage = [user |-> last.user, pass |-> last.pass]
    /\ BothStrings(localStorage)
    /\ localStorage # sessionStorage

\* C6: start hydrates the session from the durable scope whenever both
\* durable fields are strings, from the ephemeral scope only when the durable
\* one is not hydratable and both ephemeral fields are strings, and otherwise
\* leaves the session as it was; it never changes a scope.
C6_StartPrefersDurable ==
    [][calls'[1].op = "start" =>
          /\ localStorage' = localStorage
          /\ sessionStorage' = sessionStorage
          /\ IF BothStrings(localStorage)
             THEN user' = localStorage.user /\ pass' = localStorage.pass
             ELSE IF BothStrings(sessionStorage)
                  THEN user' = sessionStorage.user /\ pass' = sessionStorage.pass
                  ELSE user' = user /\ pass' = pass]_vars

C6_Witness ==
    /\ last.op = "start"
    /\ BothStrings(localStorage)
    /\ BothStrings(sessionStorage)
    /\ localStorage.user # sessionStorage.user
    /\ localStorage.pass # sessionStorage.pass
    /\ user = localStorage.user
    /\ pass = localStorage.pass

----------------------------------------------------------------------------
(* Properties of the requests *)

\* C7: credentials are committed to the session by a login only when the
\* server's response to it has status 200: a step that changes the session
\* fields, other than a load from a scope or a page load, is the completion
\* of a request with status 200 that invokes onSuccess.
C7_LoginCommitsOnlyOnStatus200 ==
    [][(/\ <<user, pass>>' # <<user, pass>>
        /\ calls'[1].op \notin {"start", "loadStored", "loadSession", "reload"}) =>
          /\ calls'[1].op = "readystatechange"
          /\ calls'[1].status = 200
          /\ calls'[1].handler = "onSuccess"]_vars

Completed == last.op = "readystatechange" /\ last.readyState = 4

RoutedByStatus ==
    /\ last.handler = (IF last.status \in {200, 201, 202, 203, 204}
                       THEN "onSuccess" ELSE "onFailure")
    /\ last.fn = (IF last.status \in {200, 201, 202, 203, 204}
                  THEN requests[last.req].onSuccess.v[1]
                  ELSE requests[last.req].onFailure.v[1])
    /\ Len(last.args) = 2
    /\ last.args[2] = JSNumber(last.status)

\* C8 as stated: whatever the response body, a request that completes with
\* a status in {200, ..., 204} has onSuccess invoked, and one that completes
\* with any other status has onFailure invoked.
C8_RoutedWhateverTheBody == Completed => RoutedByStatus

ValidJSON(text) == text \in {<<49>>, <<123, 125>>, NullText}

\* C8 as amended: when the response body is valid JSON, a request that
\* completes with a status in {200, ..., 204} has onSuccess(body, status)
\* invoked and one that completes with any other status has
\* onFailure(body, status) invoked, body being the parsed response; which
\* handler runs depends on the status only.
C8_RoutedByStatusWhenParsed ==
    (Completed /\ ValidJSON(last.text)) =>
        RoutedByStatus /\ last.args[1] = JSONParse(last.text)

C8_Witness ==
    /\ Completed
    /\ last.status = 204
    /\ last.text = <<49>>
    /\ last.handler = "onSuccess"
    /\ last.fn = 1
    /\ last.args = <<JSNumber(1), JSNumber(204)>>

BasicNullNull ==
    <<66, 97, 115, 105, 99, 32, 98, 110, 86, 115, 98, 68, 112, 117, 100, 87,
      120, 115>>

Present(x) == x.t # "undefined"

UnsupportedConfig(c) ==
    \/ c.t \notin {"undefined", "function", "string", "object"}
    \/ /\ c.t = "object"
       /\ \/ Present(c.onSuccess) /\ c.onSuccess.t # "function"
          \/ Present(c.onFailure) /\ c.onFailure.t # "function"

\* C10: send called with a config that is neither absent, a function, a
\* string nor a structured object, or with an object whose onSuccess or
\* onFailure is present and no function, throws before returning and sends
\* no request.
C10_UnsupportedConfigThrows ==
    [][(calls'[1].op = "send" /\ UnsupportedConfig(calls'[1].config)) =>
          /\ calls'[1].thrown # "none"
          /\ calls'[1].method = GET =>
                calls'[1].thrown \in {"Unexpected config type",
                                      "Expected function", "TypeError"}
          /\ requests' = requests]_vars

C10_Witness ==
    /\ last.op = "send"
    /\ last.method = GET
    /\ last.config = Primitive(JSNumber(42))
    /\ last.thrown = "Unexpected config type"
    /\ requests = <<>>

----------------------------------------------------------------------------
(* Properties of the arguments, the failures and the return values *)

NonEmptyString(x) == x.t = "string" /\ x.v # <<>>

\* C11: send rejects every method that is not a non-empty string with its
\* own type error, before a request object is opened or sent.
C11_MethodRejectedBeforeOpen ==
    [][(calls'[1].op = "send" /\ ~NonEmptyString(calls'[1].method)) =>
          /\ calls'[1].thrown = "is not a string"
          /\ requests' = requests]_vars

\* C12: when the transport fails entirely (status 0, empty response) the
\* request's onFailure is invoked and nothing is thrown out of the callback.
C12_FailedTransportReachesOnFailure ==
    (Completed /\ last.status = 0 /\ last.text = <<>>) =>
        /\ last.thrown = "none"
        /\ last.handler = "onFailure"
        /\ last.fn = requests[last.req].onFailure.v[1]

\* C13: when the response body of a completed request is not valid JSON the
\* parse error leaves the callback and neither onSuccess nor onFailure is
\* invoked, whatever the status.
C13_ParseErrorPropagates ==
    (Completed /\ ~ValidJSON(last.text)) =>
        /\ last.thrown = "SyntaxError"
        /\ last.handler = "none"
        /\ last.args = <<>>
        /\ requests[last.req].invoked = 0

C13_Witness ==
    /\ Completed
    /\ last.status = 200
    /\ last.text = <<60>>
    /\ last.thrown = "SyntaxError"
    /\ requests[last.req].onSuccess = JSFunction(1)
    /\ requests[last.req].invoked = 0

CopiedOrThrown(c, s) ==
    IF BothStrings(s)
    THEN c.thrown = "none" /\ user' = s.user /\ pass' = s.pass
    ELSE c.thrown = "is not a string"

\* C14: loadStored copies the durable scope's (user, pass) into the session
\* and loadSession the ephemeral scope's, whatever the session held; each
\* throws whenever a field of its scope is absent or not a string.
C14_LoadCopiesOrThrows ==
    [][/\ calls'[1].op = "loadStored" => CopiedOrThrown(calls'[1], localStorage)
       /\ calls'[1].op = "loadSession" => CopiedOrThrown(calls'[1], sessionStorage)
      ]_vars

\* loadStored replaces the credentials of a login that was not remembered
C14_Witness ==
    /\ last.op = "loadStored" /\ last.thrown = "none"
    /\ prev.op = "login" /\ ~prev.remember
    /\ IsCredential(prev.user) /\ prev.user # user
    /\ user = localStorage.user /\ pass = localStorage.pass

\* C15: login called with a username or a password that is no string throws
\* and changes neither the session fields nor a storage scope.
C15_LoginChecksItsArguments ==
    [][(/\ calls'[1].op = "login"
        /\ calls'[1].user.t # "string" \/ calls'[1].pass.t # "string") =>
          /\ calls'[1].thrown # "none"
          /\ UNCHANGED <<user, pass, localStorage, sessionStorage>>]_vars

\* C16: isLoggedIn is true exactly when both session fields are non-null; it
\* is false initially, and it is true only if getUsername and getPassword
\* both return strings.
C16_LoggedInMeansCredentials ==
    /\ last.op = "none" => ~isLoggedIn
    /\ isLoggedIn <=> (user # Null /\ pass # Null)
    /\ isLoggedIn => getUsername.t = "string" /\ getPassword.t = "string"

Sent == last.op = "send" /\ last.thrown = "none"

Newest == requests[Len(requests)]

\* C17: a string config is sent URL-encoded as the body, with Content-Type
\* application/x-www-form-urlencoded; of an object config the body is the
\* JSON of config.data, with Content-Type application/json.
C17_BodyAndContentType ==
    Sent =>
        /\ last.config.t = "string" =>
              /\ Newest.body = JSString(encodeURI(last.config.v))
              /\ Newest.contentType = "application/x-www-form-urlencoded"
        /\ last.config.t = "object" =>
              /\ Newest.body = JSONStringify(last.config.data)
              /\ Newest.contentType = "application/json"

FromFunctionConfig == requests[last.req].config.t = "function"

C19_LoginIssuesOneGetWithHash ==
    [][calls'[1].op = "login" =>
          /\ Len(requests') = Len(requests) + 1
          /\ requests'[Len(requests')].method = GET
          /\ requests'[Len(requests')].authorization #
                AuthorizationHeader(calls'[1].user, calls'[1].pass)]_vars

\* C20: start, login, loadStored, loadSession, logout, post, put, get,
\* delete, options and send each return the Security object.
C20_EveryMethodReturnsThis ==
    (/\ last.op \in {"start", "login", "loadStored", "loadSession", "logout",
                     "post", "put", "get", "delete", "options", "send"}
     /\ last.thrown = "none") =>
        last.returns = "this"

----------------------------------------------------------------------------
(* Properties of the requests and the session *)

\* C21: every request that send sends carries an Authorization header, also
\* when the session is logged out: a logged out session does not make send
\* throw, and the header of its request is Basic base64("null:null").
C21_LoggedOutHeaderIsNullNull ==
    [][calls'[1].op = "send" =>
          /\ (/\ NonEmptyString(calls'[1].method)
              /\ ~UnsupportedConfig(calls'[1].config)) =>
                calls'[1].thrown = "none"
          /\ calls'[1].thrown = "none" =>
                /\ Len(requests') = Len(requests) + 1
                /\ LET h == requests'[Len(requests')].authorization IN
                   /\ Len(h) > Len(BasicPrefix)
                   /\ SubSeq(h, 1, Len(BasicPrefix)) = BasicPrefix
                   /\ ~isLoggedIn => h = BasicNullNull]_vars

\* C22: a loadStored or loadSession that throws because a field of its scope
\* is no string leaves the session's username and secret as they were before
\* the call.
C22_FailedLoadChangesNothing ==
    [][(/\ calls'[1].op \in {"loadStored", "loadSession"}
        /\ calls'[1].thrown # "none") =>
          user' = user /\ pass' = pass]_vars

\* login(A, remember = true), then login(B, remember = false), then start
RememberedThenNotRemembered ==
    /\ prev2.op = "login" /\ prev2.remember
    /\ IsCredential(prev2.user) /\ IsCredential(prev2.pass)
    /\ prev.op = "login" /\ ~prev.remember
    /\ IsCredential(prev.user) /\ IsCredential(prev.pass)
    /\ last.op = "start"

\* C23: when the durable scope holds the credentials A of a login with
\* remember = true and a later login with remember = false has stored other
\* credentials B, a start that follows hydrates the session with A, not with
\* B.
C23_StartRestoresRemembered ==
    RememberedThenNotRemembered =>
        /\ getUsername = prev2.user
        /\ getPassword = prev2.pass
        /\ localStorage = [user |-> prev2.user, pass |-> prev2.pass]

C23_Witness ==
    /\ RememberedThenNotRemembered
    /\ prev.user # prev2.user
    /\ prev.pass # prev2.pass
    /\ sessionStorage = [user |-> prev.user, pass |-> prev.pass]
    /\ user = prev2.user
    /\ pass = prev2.pass

\* C24: of each request that send has dispatched the caller's handlers are
\* invoked at most once in total, only by the callback that finds the
\* request completed (readyState 4), and never within the call of send.
C24_HandlersAtMostOnce ==
    [][/\ \A i \in 1..Len(requests') :
             /\ requests'[i].invoked <= 1
             /\ requests'[i].invoked = 1 => requests'[i].readyState = 4
       /\ calls'[1].handler # "none" =>
             /\ calls'[1].op = "readystatechange"
             /\ calls'[1].readyState = 4
             /\ requests[calls'[1].req].invoked = 0
             /\ requests[calls'[1].req].readyState < 4
       /\ calls'[1].op = "send" =>
             /\ calls'[1].handler = "none"
             /\ \A i \in 1..Len(requests) :
                   requests'[i].invoked = requests[i].invoked
             /\ Len(requests') > Len(requests) =>
                   requests'[Len(requests')].invoked = 0]_vars

C24_Witness ==
    /\ Completed
    /\ last.status = 201
    /\ last.handler = "onSuccess"
    /\ requests[last.req].onSuccess = JSFunction(1)
    /\ requests[last.req].onFailure = JSFunction(2)
    /\ requests[last.req].invoked = 1

\* C25: send, post, put, get, delete, options and the callback of a request
\* change neither the session's username and secret nor a storage scope,
\* whatever the config, the status of the response and the requests that are
\* in flight with it.
C25_RequestsLeaveSessionAlone ==
    [][calls'[1].op \in {"send", "post", "put", "get", "delete", "options",
                         "readystatechange"} =>
          UNCHANGED <<user, pass, localStorage, sessionStorage>>]_vars

\* the second of two requests fails while the first, sent before the login,
\* is still in flight
C25_Witness ==
    /\ Completed
    /\ Len(requests) = 2
    /\ last.req = 2
    /\ last.status = 500
    /\ last.handler = "onFailure"
    /\ requests[1].readyState = 1
    /\ requests[1].method = POST
    /\ requests[1].authorization = BasicNullNull
    /\ requests[2].authorization # BasicNullNull
    /\ isLoggedIn
    /\ BothStrings(sessionStorage)

====
